---- MODULE Spec2Model ----
(***************************************************************************)
(* PGPBuffer (pgportfolio/nnagent/replay_buffer.py): the replay buffer of  *)
(* the portfolio agent.  The model keeps the shapes of the tensors, the    *)
(* three index arrays, the rows of the portfolio vector memory (as         *)
(* abstract weight values) and the position of a call inside the           *)
(* rejection loop of _sample_geometric.  Feature values are not modelled:  *)
(* only whether the slicing, stacking and broadcasting of _pack_samples    *)
(* succeed.                                                                *)
(***************************************************************************)
EXTENDS Integers, Sequences, FiniteSets, TLC

\* ---------------------------------------------------------------- bounds
MaxPeriod == 4      \* period_num ranges over 0..MaxPeriod
MaxWindow == 1      \* window_size ranges over 0..MaxWindow
MaxBatch == 3       \* batch_size ranges over 1..MaxBatch
MaxDraw == 2        \* np.random.geometric yields 1..MaxDraw
MaxNew == 1         \* time length of an appended feature array, 0..MaxNew
MaxNewExp == 1      \* cap of the appended-experience counter

\* Portions as exact rationals <<numerator, denominator>>.  All of them are
\* dyadic, so the float arithmetic of _divide_data is exact on them.
Portions == {<<0, 1>>, <<1, 4>>, <<1, 2>>}

\* Numbers of feature channels a buffer is built with and appended with.
FeatureCounts == {1, 3}

\* Abstract rows of the PVM: the uniform row written by __init__ and a row
\* written back by a caller.
Uniform == "uniform"
Written == {"w1"}

\* ------------------------------------------------------- python helpers
Min(a, b) == IF a < b THEN a ELSE b
Max(a, b) == IF a > b THEN a ELSE b

\* Position of a slice bound in a sequence of length n (Python slicing).
PyBound(i, n) == IF i < 0 THEN Max(i + n, 0) ELSE Min(i, n)

\* s[st:en] of Python, on a 1-based TLA+ sequence.
PySlice(s, st, en) ==
    LET lo == PyBound(st, Len(s))
        hi == PyBound(en, Len(s))
    IN  IF hi > lo THEN SubSeq(s, lo + 1, hi) ELSE <<>>

\* np.arange(n)
Arange(n) == [i \in 1..n |-> i - 1]

\* list(range(a, b))
Range(a, b) == IF b > a THEN [i \in 1..(b - a) |-> a + i - 1] ELSE <<>>

Elems(s) == {s[i] : i \in 1..Len(s)}

\* (q * n).astype(int): truncation toward zero of the rational q times n.
AsInt(q, n) ==
    IF q[1] * n >= 0 THEN (q[1] * n) \div q[2]
    ELSE -((-(q[1] * n)) \div q[2])

QAdd(p, q) == <<p[1] * q[2] + q[1] * p[2], p[2] * q[2]>>
QSub(p, q) == <<p[1] * q[2] - q[1] * p[2], p[2] * q[2]>>
QLess(p, q) == p[1] * q[2] < q[1] * p[2]

\* np.split with the last section starting at the first split point.
NpSplitOverlap(indices, a, b) ==
    <<PySlice(indices, 0, a), PySlice(indices, a, b),
      PySlice(indices, a, Len(indices))>>

\* np.split(indices, [a, b]): sary[0:a], sary[a:b], sary[b:N]
NpSplit(indices, a, b) ==
    <<PySlice(indices, 0, a), PySlice(indices, a, b),
      PySlice(indices, b, Len(indices))>>

\* idx[:-(window_size + 1)]
Truncate(idx, window_size) == PySlice(idx, 0, -(window_size + 1))

\* PGPBuffer._divide_data: returns [train, test, val].
_divide_data(period_num, window_size, test_portion, val_portion, portion_reversed) ==
    LET train_portion == QSub(QSub(<<1, 1>>, test_portion), val_portion)
        indices == Arange(period_num)
        parts == IF portion_reversed
                 THEN LET sp == NpSplit(indices,
                                    AsInt(val_portion, period_num),
                                    AsInt(QAdd(val_portion, test_portion),
                                          period_num))
                      IN [train |-> sp[3], test |-> sp[2], val |-> sp[1]]
                 ELSE LET sp == NpSplit(indices,
                                    AsInt(train_portion, period_num),
                                    AsInt(QAdd(train_portion, test_portion),
                                          period_num))
                      IN [train |-> sp[1], test |-> sp[2], val |-> sp[3]]
    IN  [train |-> Truncate(parts.train, window_size),
         test |-> Truncate(parts.test, window_size),
         val |-> Truncate(parts.val, window_size)]

\* ------------------------------------------------------- _pack_samples
\* self._pvm[j, :] for one index j of an index array (negative j wraps).
PvmRow(pvm, j) == IF j < 0 THEN pvm[j + Len(pvm) + 1] ELSE pvm[j + 1]

\* An index j is legal on a dimension of size n.
IndexOk(j, n) == -n <= j /\ j < n

\* last_w read at index instead of index - 1.
LastWSameIndex(pvm, index) == [k \in 1..Len(index) |-> PvmRow(pvm, index[k])]

\* last_w = self._pvm[index - 1, :]
LastW(pvm, index) == [k \in 1..Len(index) |-> PvmRow(pvm, index[k] - 1)]

\* Time length of self._coin_features[:, :, idx:idx + window_size + 1].
WindowLen(T, idx, window_size) ==
    Max(PyBound(idx + window_size + 1, T) - PyBound(idx, T), 0)

\* batch[:, :, :, -1] / batch[:, 0, :, -2]: shapes [B, F, C] and [B, C]
\* broadcast only when the channel axis F meets the batch axis B.
Broadcastable(B, F) == B = F \/ B = 1 \/ F = 1

\* How _pack_samples(index) ends: "ok" or the exception it raises.
PackOutcome(index, pvm, shape, window_size) ==
    IF \E k \in 1..Len(index) : ~IndexOk(index[k] - 1, Len(pvm))
    THEN "IndexError"                       \* self._pvm[index - 1, :]
    ELSE IF Len(index) = 0
    THEN "RuntimeError"                     \* t.stack of an empty list
    ELSE IF \E k \in 1..Len(index) :
              WindowLen(shape.T, index[k], window_size)
                  # WindowLen(shape.T, index[1], window_size)
    THEN "RuntimeError"                     \* t.stack of unequal slices
    ELSE IF WindowLen(shape.T, index[1], window_size) < 2
    THEN "IndexError"                       \* batch[:, 0, :, -2]
    ELSE IF ~Broadcastable(Len(index), shape.F)
    THEN "RuntimeError"                     \* the division computing y
    ELSE "ok"

\* self._pvm[index, :] = w
SetRows(pvm, index, w) ==
    [i \in 1..Len(pvm) |->
        IF \E k \in 1..Len(index) :
              index[k] = i - 1 \/ index[k] + Len(pvm) = i - 1
        THEN w ELSE pvm[i]]

\* ------------------------------------------------------ _sample_geometric
\* The loop test off by one: a draw pointing one before start passes.
RejectedOffByOne(k, start, end) == k > end - start + 1

\* The loop test of _sample_geometric: the draw is rejected and redrawn.
Rejected(k, start, end) == k > end - start

\* result = end - ran
SampleResult(k, end) == end - k

\* ------------------------------------------------------ append_experience
\* append_experience without its mode test.
AppendNeverRefused(portion_reversed) == FALSE

\* The mode test at the head of append_experience.
AppendRefused(portion_reversed) == ~portion_reversed

\* self._train_idx += list(range(last, last + n)) on a numpy array: an
\* elementwise in-place add of a broadcast operand, never an extension.
\* An empty list is a float64 operand, which numpy refuses to cast into the
\* int64 array; other lengths have to broadcast to the length L.
IaddOutcome(L, n) ==
    IF n = 0 THEN "TypeError"
    ELSE IF n = L \/ n = 1 THEN "ok"
    ELSE "ValueError"

IaddTrainIdx(train_idx, n) ==
    LET last == train_idx[Len(train_idx)]
        add == Range(last, last + n)
    IN  [i \in 1..Len(train_idx) |->
            train_idx[i] + (IF n = 1 THEN add[1] ELSE add[i])]

\* t.cat along the time axis (dim=-1): channel and coin axes have to agree.
CatFeaturesTimeAxis(shape, newF, n, coins_match) ==
    [ok |-> coins_match /\ newF = shape.F,
     shape |-> [F |-> shape.F, T |-> shape.T + n]]

\* t.cat([self._coin_features, new]) with the default dim=0: the channel
\* axis is the one concatenated, the coin and time axes have to agree.
CatFeatures(shape, newF, n, coins_match) ==
    [ok |-> coins_match /\ n = shape.T,
     shape |-> [F |-> shape.F + newF, T |-> shape.T]]

\* t.cat([self._pvm, pvm]) along dim 0, the time axis of the PVM.
CatPvm(pvm, m) == pvm \o [i \in 1..m |-> Uniform]

\* ----------------------------------------------------------------- state
VARIABLES
    cfg,            \* constructor arguments kept by the object
    coin_features,  \* shape of self._coin_features: [F |-> , T |-> ]
    _pvm,           \* self._pvm, one abstract row per time step
    _train_idx, _test_idx, _val_idx,
    _new_exp_count,
    pc,             \* "idle" or "draw" (inside _sample_geometric)
    caller,         \* who entered the sampler: "next_batch" or "direct"
    sStart, sEnd,   \* arguments of the running/last _sample_geometric call
    ran,            \* last value drawn in that call (0: none yet)
    result,         \* <<r>> once that call returned r, <<>> before
    batch_acc,      \* samples collected so far by an unordered next_batch
    lastOp,         \* the operation that ran last
    outcome,        \* "ok" or the exception it ended in
    batch_idx,      \* the index list the last operation gave to _pack_samples
    last_w,         \* "last_w" of the last packed sample set
    setw_index,     \* index captured by the setw closure the caller holds
    arg,            \* time length given to the last append_experience
    set_w           \* row given to the last setw ("none" otherwise)

vars == <<cfg, coin_features, _pvm, _train_idx, _test_idx, _val_idx,
          _new_exp_count, pc, caller, sStart, sEnd, ran, result, batch_acc,
          lastOp, outcome, batch_idx, last_w, setw_index, arg, set_w>>

buffer == <<coin_features, _pvm, _train_idx, _test_idx, _val_idx,
            _new_exp_count>>

\* The caller holds the sample set of its latest operation only: a setw
\* closure is dropped when an operation other than setw starts.
NoHandle == <<>>

\* PGPBuffer.__init__
Init ==
    \E period_num \in 0..MaxPeriod, window_size \in 0..MaxWindow,
       batch_size \in 1..MaxBatch, F \in FeatureCounts,
       test_portion \in Portions, validation_portion \in Portions,
       portion_reversed \in BOOLEAN, is_unordered \in BOOLEAN :
        LET d == _divide_data(period_num, window_size, test_portion,
                              validation_portion, portion_reversed)
        IN  /\ cfg = [period_num |-> period_num,
                      batch_size |-> batch_size,
                      window_size |-> window_size,
                      test_portion |-> test_portion,
                      validation_portion |-> validation_portion,
                      portion_reversed |-> portion_reversed,
                      is_unordered |-> is_unordered]
            /\ coin_features = [F |-> F, T |-> period_num]
            /\ _pvm = [i \in 1..period_num |-> Uniform]
            /\ _train_idx = d.train
            /\ _test_idx = d.test
            /\ _val_idx = d.val
            /\ _new_exp_count = 0
            /\ pc = "idle"
            /\ caller = "none"
            /\ sStart = 0 /\ sEnd = 0 /\ ran = 0 /\ result = <<>>
            /\ batch_acc = <<>>
            /\ lastOp = "__init__"
            /\ outcome = "ok"
            /\ batch_idx = <<>>
            /\ last_w = <<>>
            /\ setw_index = NoHandle
            /\ arg = 0
            /\ set_w = "none"

\* The frame of _sample_geometric is dropped when another operation starts.
NoFrame ==
    /\ caller' = "none"
    /\ sStart' = 0 /\ sEnd' = 0 /\ ran' = 0 /\ result' = <<>>
    /\ batch_acc' = <<>>

\* _pack_samples(index), as the tail of the operation op.
Pack(op, index) ==
    LET o == PackOutcome(index, _pvm, coin_features, cfg.window_size)
    IN  /\ lastOp' = op
        /\ outcome' = o
        /\ batch_idx' = index
        /\ last_w' = IF o = "ok" THEN LastW(_pvm, index) ELSE <<>>
        /\ setw_index' = IF o = "ok" THEN index ELSE NoHandle
        /\ arg' = 0
        /\ set_w' = "none"
        /\ pc' = "idle"
        /\ UNCHANGED <<cfg, buffer>>

get_training_set ==
    /\ pc = "idle"
    /\ Pack("get_training_set", _train_idx)
    /\ NoFrame

get_test_set ==
    /\ pc = "idle"
    /\ Pack("get_test_set", _test_idx)
    /\ NoFrame

get_val_set ==
    /\ pc = "idle"
    /\ Pack("get_val_set", _val_idx)
    /\ NoFrame

\* A direct call _pack_samples([i]).
_pack_samples(i) ==
    /\ pc = "idle"
    /\ Pack("_pack_samples", <<i>>)
    /\ NoFrame

\* setw(w) of the latest returned sample set.
setw(w) ==
    /\ pc = "idle"
    /\ setw_index # NoHandle
    /\ lastOp' = "setw"
    /\ arg' = 0
    /\ set_w' = w
    /\ batch_idx' = setw_index
    /\ last_w' = <<>>
    /\ IF \E k \in 1..Len(setw_index) : ~IndexOk(setw_index[k], Len(_pvm))
       THEN /\ outcome' = "IndexError"
            /\ _pvm' = _pvm
       ELSE /\ outcome' = "ok"
            /\ _pvm' = SetRows(_pvm, setw_index, w)
    /\ NoFrame
    /\ UNCHANGED <<cfg, coin_features, _train_idx, _test_idx, _val_idx,
                   _new_exp_count, pc, setw_index>>

\* next_batch up to its first call of _sample_geometric.
next_batch ==
    /\ pc = "idle"
    /\ lastOp' = "next_batch"
    /\ arg' = 0
    /\ set_w' = "none"
    /\ batch_idx' = <<>>
    /\ last_w' = <<>>
    /\ batch_acc' = <<>>
    /\ ran' = 0
    /\ result' = <<>>
    /\ IF Len(_train_idx) = 0
       THEN /\ outcome' = "IndexError"      \* self._train_idx[0]
            /\ pc' = "idle"
            /\ caller' = "none"
            /\ sStart' = 0 /\ sEnd' = 0
       ELSE /\ outcome' = "running"
            /\ pc' = "draw"
            /\ caller' = "next_batch"
            /\ sStart' = _train_idx[1]
            /\ sEnd' = _train_idx[Len(_train_idx)]
    /\ setw_index' = NoHandle
    /\ UNCHANGED <<cfg, buffer>>

\* A direct call of the static method _sample_geometric(start, end, bias).
\* It neither reads nor writes the buffer, so it is exercised next to a
\* freshly constructed buffer only, on positions of that buffer's time axis.
_sample_geometric(start, end) ==
    /\ pc = "idle"
    /\ lastOp = "__init__"
    /\ lastOp' = "_sample_geometric"
    /\ outcome' = "running"
    /\ arg' = 0
    /\ set_w' = "none"
    /\ batch_idx' = <<>>
    /\ last_w' = <<>>
    /\ batch_acc' = <<>>
    /\ ran' = 0
    /\ result' = <<>>
    /\ pc' = "draw"
    /\ caller' = "direct"
    /\ sStart' = start
    /\ sEnd' = end
    /\ setw_index' = NoHandle
    /\ UNCHANGED <<cfg, buffer>>

\* One draw of np.random.geometric inside _sample_geometric, the loop test
\* and, when the draw is accepted, the rest of the calling operation.
Draw(k) ==
    /\ pc = "draw"
    /\ ran' = k
    /\ UNCHANGED <<sStart, sEnd, caller>>
    /\ IF Rejected(k, sStart, sEnd)
       THEN /\ result' = <<>>
            /\ UNCHANGED <<cfg, buffer, pc, batch_acc, lastOp, outcome,
                           batch_idx, last_w, setw_index, arg, set_w>>
       ELSE LET r == SampleResult(k, sEnd)
            IN  /\ result' = <<r>>
                /\ IF caller = "direct"
                   THEN /\ pc' = "idle"
                        /\ outcome' = "ok"
                        /\ UNCHANGED <<cfg, buffer, batch_acc, lastOp,
                                       batch_idx, last_w, setw_index, arg, set_w>>
                   ELSE IF ~cfg.is_unordered
                   THEN /\ Pack("next_batch", Range(r, r + cfg.batch_size))
                        /\ UNCHANGED batch_acc
                   ELSE IF Len(batch_acc) + 1 = cfg.batch_size
                   THEN /\ Pack("next_batch", Append(batch_acc, r))
                        /\ batch_acc' = Append(batch_acc, r)
                   ELSE /\ batch_acc' = Append(batch_acc, r)
                        /\ UNCHANGED <<cfg, buffer, pc, lastOp, outcome,
                                       batch_idx, last_w, setw_index, arg, set_w>>

\* t.cat of the features and of the pvm, the tail of append_experience:
\* newF is the channel count of the new features, coins_match tells whether
\* their coin axis agrees, m is the time length of the new pvm when has_pvm,
\* and pvm is None otherwise.
AppendTensors(n, newF, coins_match, has_pvm, m) ==
    LET c == CatFeatures(coin_features, newF, n, coins_match)
    IN  IF ~c.ok
        THEN /\ outcome' = "RuntimeError"            \* t.cat of the features
             /\ UNCHANGED <<coin_features, _pvm>>
        ELSE /\ coin_features' = c.shape
             /\ IF ~has_pvm
                THEN /\ outcome' = "AttributeError"  \* None.to(device)
                     /\ _pvm' = _pvm
                ELSE IF ~coins_match
                THEN /\ outcome' = "RuntimeError"    \* t.cat of the pvm
                     /\ _pvm' = _pvm
                ELSE /\ outcome' = "ok"
                     /\ _pvm' = CatPvm(_pvm, m)

\* append_experience(coin_features, pvm): n is the time length of the new
\* features.  The other properties of the arguments are read by the t.cat
\* calls only.
append_experience(n) ==
    /\ pc = "idle"
    /\ _new_exp_count + n <= MaxNewExp
    /\ lastOp' = "append_experience"
    /\ arg' = n
    /\ set_w' = "none"
    /\ batch_idx' = <<>>
    /\ last_w' = <<>>
    /\ NoFrame
    /\ setw_index' = NoHandle
    /\ UNCHANGED <<cfg, _test_idx, _val_idx, pc>>
    /\ IF AppendRefused(cfg.portion_reversed)
       THEN /\ outcome' = "RuntimeError"
            /\ UNCHANGED <<coin_features, _pvm, _train_idx, _new_exp_count>>
       ELSE /\ _new_exp_count' = _new_exp_count + n
            /\ IF Len(_train_idx) = 0
               THEN /\ outcome' = "IndexError"   \* self._train_idx[-1]
                    /\ UNCHANGED <<coin_features, _pvm, _train_idx>>
               ELSE IF IaddOutcome(Len(_train_idx), n) # "ok"
               THEN /\ outcome' = IaddOutcome(Len(_train_idx), n)
                    /\ UNCHANGED <<coin_features, _pvm, _train_idx>>
               ELSE /\ _train_idx' = IaddTrainIdx(_train_idx, n)
                    /\ \E newF \in FeatureCounts, coins_match \in BOOLEAN,
                          has_pvm \in BOOLEAN, m \in 0..MaxNew :
                          AppendTensors(n, newF, coins_match, has_pvm, m)

Next ==
    \/ get_training_set
    \/ get_test_set
    \/ get_val_set
    \/ \E i \in 0..Len(_pvm) : _pack_samples(i)
    \/ \E w \in Written : setw(w)
    \/ next_batch
    \/ \E start \in {0, 1}, end \in 0..Len(_pvm) :
          _sample_geometric(start, end)
    \/ \E k \in 1..MaxDraw : Draw(k)
    \/ \E n \in 0..MaxNew : append_experience(n)

Spec == Init /\ [][Next]_vars

\* The geometric source yields every value again and again.
FairSpec == Spec /\ \A k \in 1..MaxDraw : WF_vars(Draw(k))

\* ----------------------------------------------------------------- claims
PortionSum == QAdd(cfg.test_portion, cfg.validation_portion)

Disjoint(s, t) == Elems(s) \cap Elems(t) = {}

\* C1: with test_portion + val_portion < 1, the three index arrays that
\* _divide_data returns to __init__ are pairwise disjoint subsets of
\* 0..period_num-1 and their lengths add up to at most period_num.
C1_Partition ==
    (lastOp = "__init__" /\ QLess(PortionSum, <<1, 1>>)) =>
        /\ Disjoint(_train_idx, _test_idx)
        /\ Disjoint(_train_idx, _val_idx)
        /\ Disjoint(_test_idx, _val_idx)
        /\ Elems(_train_idx) \cup Elems(_test_idx) \cup Elems(_val_idx)
               \subseteq 0..(cfg.period_num - 1)
        /\ Len(_train_idx) + Len(_test_idx) + Len(_val_idx) <= cfg.period_num

C1_Witness ==
    /\ lastOp = "__init__"
    /\ QLess(PortionSum, <<1, 1>>)
    /\ cfg.portion_reversed
    /\ Len(_train_idx) >= 1
    /\ Len(_test_idx) >= 1

\* C2: a draw k of _sample_geometric is accepted exactly when
\* k <= end - start; the value returned is end - k and lies in [start, end).
C2_SampleInRange ==
    ran # 0 =>
        /\ (result # <<>>) <=> (ran <= sEnd - sStart)
        /\ result # <<>> =>
              /\ result[1] = sEnd - ran
              /\ sStart <= result[1]
              /\ result[1] < sEnd

C2_Witness ==
    /\ caller = "direct"
    /\ pc = "idle"
    /\ sStart >= 1
    /\ ran = 2
    /\ result = <<sStart>>

\* A successful _pack_samples([i]) with i >= 1 is the step taken.
PackedOne(i) ==
    /\ lastOp' = "_pack_samples"
    /\ outcome' = "ok"
    /\ batch_idx' = <<i>>
    /\ i >= 1

\* The step before was a successful setw of the sample set packed for [i].
AfterSetwOf(i) ==
    /\ lastOp = "setw"
    /\ outcome = "ok"
    /\ batch_idx = <<i>>

\* C3 (as stated): packing [i] returns PVM row i-1, and packing [i] again
\* right after setw(w) of that sample returns w as prior weights.
C3_RepackReturnsWritten ==
    [][\A i \in 1..(MaxPeriod + MaxNewExp) :
          /\ PackedOne(i) => last_w' = <<_pvm'[i]>>
          /\ (AfterSetwOf(i) /\ PackedOne(i)) => last_w' = <<set_w>>]_vars

\* C3 (amended): packing [i] returns PVM row i-1; setw(w) of that sample
\* writes row i and leaves row i-1 as it was, so that it is packing [i+1]
\* right after the setw that returns w as prior weights.
C3_NextIndexReturnsWritten ==
    [][\A i \in 1..(MaxPeriod + MaxNewExp) :
          /\ PackedOne(i) => last_w' = <<_pvm'[i]>>
          /\ (AfterSetwOf(i) /\ PackedOne(i + 1)) => last_w' = <<set_w>>
          /\ (lastOp' = "setw" /\ outcome' = "ok" /\ batch_idx' = <<i>>)
                => (_pvm'[i] = _pvm[i] /\ _pvm'[i + 1] = set_w')]_vars

C3_Witness ==
    /\ lastOp = "_pack_samples"
    /\ outcome = "ok"
    /\ Len(batch_idx) = 1
    /\ batch_idx[1] >= 2
    /\ last_w = <<"w1">>
    /\ _pvm[batch_idx[1] - 1] = Uniform

\* C4: on a buffer built with portion_reversed=True every append_experience
\* of n >= 1 timesteps completes and makes train_num exactly n larger.
C4_AppendExtendsTrain ==
    [][(lastOp' = "append_experience" /\ cfg.portion_reversed /\ arg' >= 1)
          => /\ outcome' = "ok"
             /\ Len(_train_idx') = Len(_train_idx) + arg']_vars

\* C5: on a buffer built with portion_reversed=False append_experience ends
\* in an error and leaves features, PVM, index arrays and the counter of
\* appended experiences as they were.
C5_RefusedAppendKeepsState ==
    [][(lastOp' = "append_experience" /\ ~cfg.portion_reversed)
          => /\ outcome' # "ok"
             /\ coin_features' = coin_features
             /\ _pvm' = _pvm
             /\ _train_idx' = _train_idx
             /\ _test_idx' = _test_idx
             /\ _val_idx' = _val_idx
             /\ _new_exp_count' = _new_exp_count]_vars

C5_Witness ==
    /\ lastOp = "append_experience"
    /\ ~cfg.portion_reversed
    /\ outcome = "RuntimeError"
    /\ arg >= 1
    /\ \E i \in 1..Len(_pvm) : _pvm[i] # Uniform

\* C6: in every reachable state the time length of the PVM equals the time
\* length of the feature tensor.
C6_PvmLenIsFeatureLen == Len(_pvm) = coin_features.T

C6_Witness ==
    /\ lastOp = "append_experience"
    /\ cfg.portion_reversed
    /\ outcome = "RuntimeError"
    /\ _new_exp_count >= 1
    /\ Len(_train_idx) >= 1
    /\ _train_idx[Len(_train_idx)] >= cfg.period_num - cfg.window_size - 1
    /\ \E i \in 1..Len(_pvm) : _pvm[i] # Uniform

\* C7: every batch next_batch returns in ordered mode is the contiguous
\* range [s, s + batch_size) and holds indices of the train array only.
C7_OrderedBatchInTrain ==
    (lastOp = "next_batch" /\ outcome = "ok" /\ ~cfg.is_unordered) =>
        /\ Len(batch_idx) = cfg.batch_size
        /\ \A k \in 1..Len(batch_idx) : batch_idx[k] = batch_idx[1] + k - 1
        /\ Elems(batch_idx) \subseteq Elems(_train_idx)

\* C8: construction ends in a configuration error unless
\* test_portion + val_portion < 1 and none of the three truncated ranges is
\* empty.
C8_ConfigError ==
    (lastOp = "__init__" /\ outcome = "ok") =>
        /\ QLess(PortionSum, <<1, 1>>)
        /\ Len(_train_idx) > 0
        /\ Len(_test_idx) > 0
        /\ Len(_val_idx) > 0

\* C9: no index next_batch hands to _pack_samples is 0.
C9_NeverIndexZero ==
    (lastOp = "next_batch" /\ batch_idx # <<>>) => 0 \notin Elems(batch_idx)

\* C10: with a non-empty train array, the bounds next_batch gives to
\* _sample_geometric admit an accepted draw: end - start >= 1.
C10_BoundsAdmitDraw ==
    (pc = "draw" /\ caller = "next_batch") => sEnd - sStart >= 1

\* C10, as termination under FairSpec: a next_batch that started sampling
\* comes to an end.
C10_NextBatchTerminates ==
    (pc = "draw" /\ caller = "next_batch") ~> (pc = "idle")

====
